---- MODULE Spec2Model ----
(***************************************************************************)
(* Model of the indexed incremental (quadrature) encoder driver            *)
(*   quadrature-encoder/src/encoder/indexed.rs                             *)
(* with the Decode Engine (crate quadrature_decoder), the Movement types   *)
(* (crate::mode) and the error types (crate::Error) modelled from the      *)
(* specification, since their code is not part of the sources at hand.     *)
(***************************************************************************)
EXTENDS Integers, Sequences, FiniteSets, TLC

\* ------------------------------------------------------------------ bounds
\* Largest value of the narrow counter type T used when the encoder is
\* explored under an arbitrary environment (T ranges over -MaxT-1 .. MaxT).
MaxT == 1
\* Largest value of the wide counter type T; the example task runs with
\* either, so that its counter saturates with the narrow one.
WideT == 40
\* Largest number of clockwise / counter-clockwise cycles the example mocks
\* (the example itself uses CW = 6 and CCW = 9).
MaxCW == 6
MaxCCW == 9

\* --------------------------------------------------------------- variables
VARIABLES
    feature_async,  \* cfg(feature = "async"): TRUE for the event-driven build
    Steps,          \* type parameter Steps: "FullStep", "HalfStep", "QuadStep"
    Mode,           \* type parameter Mode: "Rotary" or "Linear"
    T_MAX,          \* type parameter T, given by its largest value
    encoder,        \* the IndexedIncrementalEncoder (a record of its fields)
    pins,           \* actual electrical level of the three pins
    ret,            \* the last call on the encoder: [op, arg, res]
    io,             \* the pin calls made by the last call on the encoder
    position_before, \* what position() returned before the last call
    \* the example task (examples/embassy_async.rs)
    CW,             \* number of clockwise cycles mocked
    CCW,            \* number of counter-clockwise cycles mocked
    clk_states,     \* transactions the clock mock pin still expects
    dat_states,     \* transactions the data mock pin still expects
    expected_pulse_count, \* movements the task still waits for
    task_pc,        \* where the task is: "idle", "loop", "done", ...
    reported,       \* how many polls of the task returned what
    owner,          \* who holds each pin handle: "encoder", "caller", "dropped"
    \* two more encoders on the same pins
    encoder_rev,    \* an encoder built with reversed(), fed the same levels
    encoder_mir,    \* an encoder fed the mirrored levels (clk and dt swapped)
    ret_rev,        \* what the last call on encoder_rev returned
    ret_mir,        \* what the last call on encoder_mir returned
    valid_so_far    \* no poll of the three encoders has returned an error

coreVars == <<feature_async, Steps, Mode, T_MAX, encoder, pins, ret, io, position_before>>
taskVars == <<CW, CCW, clk_states, dat_states, expected_pulse_count, task_pc, reported,
              owner>>
pairVars == <<encoder_rev, encoder_mir, ret_rev, ret_mir, valid_so_far>>

Pins == {"clk", "dt", "idx"}
StepModes == {"FullStep", "HalfStep", "QuadStep"}
Modes == {"Rotary", "Linear"}
Levels == {"High", "Low"}
ReadResults == {"High", "Low", "Err"}

\* --------------------------------------------------- counter type T
T_MIN == -T_MAX - 1
T == T_MIN .. T_MAX

\* SaturatingAdd::saturating_add on the counter type T.
saturating_add(x, d) ==
    IF x + d > T_MAX THEN T_MAX
    ELSE IF x + d < T_MIN THEN T_MIN
    ELSE x + d

\* --------------------------------------------------- results and errors
Ok(v) == [tag |-> "Ok", val |-> v]
Err(e) == [tag |-> "Err", val |-> e]
None == "None"
Unit == [tag |-> "Unit", val |-> "()"]

\* Error::InputPin(InputPinError::PinClk | PinDt | PinIdx)
InputPinError(pin) ==
    CASE pin = "clk" -> "PinClk"
      [] pin = "dt" -> "PinDt"
      [] pin = "idx" -> "PinIdx"

\* Error::Quadrature(_): the decode (invalid transition) error.
Quadrature == "Quadrature"

\* --------------------------------------------------- Movement (crate::mode)
\* From<Change> for Mode::Movement.
MovementFrom(mode, change) ==
    IF mode = "Rotary"
    THEN (IF change = "Positive" THEN "Clockwise" ELSE "CounterClockwise")
    ELSE (IF change = "Positive" THEN "Forward" ELSE "Backward")

\* Movement::flipped().
flipped(m) ==
    CASE m = "Clockwise" -> "CounterClockwise"
      [] m = "CounterClockwise" -> "Clockwise"
      [] m = "Forward" -> "Backward"
      [] m = "Backward" -> "Forward"

Movements == {"Clockwise", "CounterClockwise", "Forward", "Backward"}

\* --------------------------------------------------- Decode Engine
\* StepMode: reported movements per full quadrature cycle.
PULSES_PER_CYCLE(steps) ==
    CASE steps = "FullStep" -> 1
      [] steps = "HalfStep" -> 2
      [] steps = "QuadStep" -> 4

\* Raw Gray-code transitions that accumulate into one reported movement.
TransitionsPerPulse(steps) == 4 \div PULSES_PER_CYCLE(steps)

\* Place of a raw (clk, dt) state on the Gray-code cycle, counted in the
\* positive direction from the rest state (both high):
\*   11 -> 01 -> 00 -> 10 -> 11   (clk falls, dt falls, clk rises, dt rises)
GrayIndex(clk, dt) ==
    CASE clk /\ dt -> 0
      [] ~clk /\ dt -> 1
      [] ~clk /\ ~dt -> 2
      [] clk /\ ~dt -> 3

\* IndexedIncrementalDecoder::default(): at rest, nothing accumulated.
DecoderDefault == [clk |-> TRUE, dt |-> TRUE, acc |-> 0, counter |-> 0]

\* wrapping_add on the counter type T.
wrapping_add(x, d) ==
    IF x + d > T_MAX THEN T_MIN
    ELSE IF x + d < T_MIN THEN T_MAX
    ELSE x + d

\* IndexedIncrementalDecoder::update(clk, dt, idx): a raw state that is one
\* place away on the Gray-code cycle is a valid transition, the same state is
\* no change, the opposite state is an invalid transition. The index level is
\* taken and has no effect on validity or on the counter. `wraps` selects
\* wrapping instead of saturating counter arithmetic.
DecoderUpdateWith(dec, steps, clk, dt, idx, wraps) ==
    LET moved == (GrayIndex(clk, dt) - GrayIndex(dec.clk, dec.dt)) % 4
        synced == [dec EXCEPT !.clk = clk, !.dt = dt]
        d == IF moved = 1 THEN 1 ELSE -1
        acc == dec.acc + d
    IN  CASE moved = 0 -> [decoder |-> dec, result |-> Ok(None)]
          [] moved = 2 -> [decoder |-> synced, result |-> Err(Quadrature)]
          [] OTHER ->
               IF acc = TransitionsPerPulse(steps) \/ acc = -TransitionsPerPulse(steps)
               THEN [decoder |-> [synced EXCEPT !.acc = 0,
                                                !.counter = IF wraps
                                                            THEN wrapping_add(dec.counter, d)
                                                            ELSE saturating_add(dec.counter, d)],
                     result |-> Ok(IF d = 1 THEN "Positive" ELSE "Negative")]
               ELSE [decoder |-> [synced EXCEPT !.acc = acc],
                     result |-> Ok(None)]

\* A decode engine whose counter wraps around instead of saturating.
DecoderUpdateWrapping(dec, steps, clk, dt, idx) ==
    DecoderUpdateWith(dec, steps, clk, dt, idx, TRUE)

DecoderUpdate(dec, steps, clk, dt, idx) ==
    DecoderUpdateWith(dec, steps, clk, dt, idx, FALSE)

\* IndexedIncrementalDecoder::reset / counter / set_counter.
DecoderReset(dec) == DecoderDefault
DecoderCounter(dec) == dec.counter
DecoderSetCounter(dec, v) == [dec EXCEPT !.counter = v]

\* --------------------------------------------------- the encoder
\* is_high().unwrap_or(true): a pin whose read fails is taken to be high.
unwrap_or_true(r) == r # "Low"

\* InputPin::is_high().unwrap_or(false)
unwrap_or_false(r) == r = "High"

\* One pin call: the pin, the method called and what it returned.
Call(pin, method, result) == [pin |-> pin, call |-> method, result |-> result]

\* IndexedIncrementalEncoder::new(pin_clk, pin_dt, pin_idx), where each pin's
\* is_high() returns r.clk, r.dt, r.idx.
new(r) ==
    [decoder |-> DecoderDefault,
     is_reversed |-> FALSE,
     pin_clk_state |-> unwrap_or_false(r.clk),
     pin_dt_state |-> unwrap_or_false(r.dt),
     pin_idx_state |-> unwrap_or_false(r.idx)]

\* reversed() toggling the flag instead of setting it.
reversedToggles(self) == [self EXCEPT !.is_reversed = ~self.is_reversed]

\* IndexedIncrementalEncoder::reversed()
reversed(self) == [self EXCEPT !.is_reversed = TRUE]

\* IndexedIncrementalEncoder::is_reversed()
is_reversed(self) == self.is_reversed

\* IndexedIncrementalEncoder::pins_mut(): mutable borrows of the pins it
\* returns, by name.
pins_mut(self) == <<"clk", "dt">>

\* IndexedIncrementalEncoder::release(): the pin handles it returns, by name.
\* It consumes self, so every field it does not return is dropped.
release(self) == <<"clk", "dt">>

\* IndexedIncrementalEncoder::position()
position(self) == DecoderCounter(self.decoder)

\* set_position() storing the negated value when the encoder is reversed.
set_position_flipped(self, v) ==
    [self EXCEPT !.decoder =
        DecoderSetCounter(self.decoder,
                          IF self.is_reversed THEN saturating_add(0, -v) ELSE v)]

\* IndexedIncrementalEncoder::set_position(position)
set_position(self, v) == [self EXCEPT !.decoder = DecoderSetCounter(self.decoder, v)]

\* reset() as a return to the state new() leaves: the decoder and the
\* reversal flag are both reset.
resetEverything(self) ==
    [self EXCEPT !.decoder = DecoderReset(self.decoder), !.is_reversed = FALSE]

\* IndexedIncrementalEncoder::reset()
reset(self) == [self EXCEPT !.decoder = DecoderReset(self.decoder)]

\* poll() handing the data level to the decode engine as the clock level
\* and the clock level as the data level.
DecodeSwapped(self) ==
    LET u == DecoderUpdate(self.decoder, Steps, self.pin_dt_state,
                           self.pin_clk_state, self.pin_idx_state)
        updated == [self EXCEPT !.decoder = u.decoder]
    IN  IF u.result.tag = "Err"
        THEN [self |-> updated, res |-> Err(u.result.val)]
        ELSE IF u.result.val = None
        THEN [self |-> updated, res |-> Ok(None)]
        ELSE LET movement == MovementFrom(Mode, u.result.val)
             IN  [self |-> updated,
                  res |-> Ok(IF is_reversed(self) THEN flipped(movement) ELSE movement)]

\* poll() returning the movement as decoded whether reversed or not.
DecodeNoFlip(self) ==
    LET u == DecoderUpdate(self.decoder, Steps, self.pin_clk_state,
                           self.pin_dt_state, self.pin_idx_state)
        updated == [self EXCEPT !.decoder = u.decoder]
    IN  IF u.result.tag = "Err"
        THEN [self |-> updated, res |-> Err(u.result.val)]
        ELSE IF u.result.val = None
        THEN [self |-> updated, res |-> Ok(None)]
        ELSE [self |-> updated, res |-> Ok(MovementFrom(Mode, u.result.val))]

\* poll() falling back to "no movement" on a decode error, as
\* poll().unwrap_or_default() does.
DecodeUnwrapOrDefault(self) ==
    LET u == DecoderUpdate(self.decoder, Steps, self.pin_clk_state,
                           self.pin_dt_state, self.pin_idx_state)
        updated == [self EXCEPT !.decoder = u.decoder]
    IN  IF u.result.tag = "Err" \/ u.result.val = None
        THEN [self |-> updated, res |-> Ok(None)]
        ELSE LET movement == MovementFrom(Mode, u.result.val)
             IN  [self |-> updated,
                  res |-> Ok(IF is_reversed(self) THEN flipped(movement) ELSE movement)]

\* The tail of poll(): decode the cached levels, map the change to a Movement
\* of the mode and flip it when the encoder is reversed.
Decode(self) ==
    LET u == DecoderUpdate(self.decoder, Steps, self.pin_clk_state,
                           self.pin_dt_state, self.pin_idx_state)
        updated == [self EXCEPT !.decoder = u.decoder]
    IN  IF u.result.tag = "Err"
        THEN [self |-> updated, res |-> Err(u.result.val)]
        ELSE IF u.result.val = None
        THEN [self |-> updated, res |-> Ok(None)]
        ELSE LET movement == MovementFrom(Mode, u.result.val)
             IN  [self |-> updated,
                  res |-> Ok(IF is_reversed(self) THEN flipped(movement) ELSE movement)]

\* poll() with the data pin's read error mapped to the clock pin's error.
pollDtErrorAsClk(self, r) ==
    IF feature_async
    THEN LET d == Decode(self) IN [self |-> d.self, res |-> d.res, io |-> <<>>]
    ELSE IF r.clk = "Err"
    THEN [self |-> self, res |-> Err(InputPinError("clk")),
          io |-> <<Call("clk", "is_high", r.clk)>>]
    ELSE LET s1 == [self EXCEPT !.pin_clk_state = (r.clk = "High")] IN
    IF r.dt = "Err"
    THEN [self |-> s1, res |-> Err(InputPinError("clk")),
          io |-> <<Call("clk", "is_high", r.clk), Call("dt", "is_high", r.dt)>>]
    ELSE LET s2 == [s1 EXCEPT !.pin_dt_state = (r.dt = "High")] IN
    IF r.idx = "Err"
    THEN [self |-> s2, res |-> Err(InputPinError("idx")),
          io |-> <<Call("clk", "is_high", r.clk), Call("dt", "is_high", r.dt),
                   Call("idx", "is_high", r.idx)>>]
    ELSE LET s3 == [s2 EXCEPT !.pin_idx_state = (r.idx = "High")]
             d == Decode(s3)
         IN  [self |-> d.self, res |-> d.res,
              io |-> <<Call("clk", "is_high", r.clk), Call("dt", "is_high", r.dt),
                       Call("idx", "is_high", r.idx)>>]

\* poll() without the cfg gate on its reads: the pins are read in the
\* event-driven build too.
pollAlwaysReads(self, r) ==
    IF r.clk = "Err"
    THEN [self |-> self, res |-> Err(InputPinError("clk")),
          io |-> <<Call("clk", "is_high", r.clk)>>]
    ELSE LET s1 == [self EXCEPT !.pin_clk_state = (r.clk = "High")] IN
    IF r.dt = "Err"
    THEN [self |-> s1, res |-> Err(InputPinError("dt")),
          io |-> <<Call("clk", "is_high", r.clk), Call("dt", "is_high", r.dt)>>]
    ELSE LET s2 == [s1 EXCEPT !.pin_dt_state = (r.dt = "High")] IN
    IF r.idx = "Err"
    THEN [self |-> s2, res |-> Err(InputPinError("idx")),
          io |-> <<Call("clk", "is_high", r.clk), Call("dt", "is_high", r.dt),
                   Call("idx", "is_high", r.idx)>>]
    ELSE LET s3 == [s2 EXCEPT !.pin_idx_state = (r.idx = "High")]
             d == Decode(s3)
         IN  [self |-> d.self, res |-> d.res,
              io |-> <<Call("clk", "is_high", r.clk), Call("dt", "is_high", r.dt),
                       Call("idx", "is_high", r.idx)>>]

\* poll() with the decoder updated before the index pin is read: a failed
\* read of the index pin returns its error after the position has changed.
pollDecodesBeforeIdx(self, r) ==
    IF feature_async
    THEN LET d == Decode(self) IN [self |-> d.self, res |-> d.res, io |-> <<>>]
    ELSE IF r.clk = "Err"
    THEN [self |-> self, res |-> Err(InputPinError("clk")),
          io |-> <<Call("clk", "is_high", r.clk)>>]
    ELSE LET s1 == [self EXCEPT !.pin_clk_state = (r.clk = "High")] IN
    IF r.dt = "Err"
    THEN [self |-> s1, res |-> Err(InputPinError("dt")),
          io |-> <<Call("clk", "is_high", r.clk), Call("dt", "is_high", r.dt)>>]
    ELSE LET s2 == [s1 EXCEPT !.pin_dt_state = (r.dt = "High")]
             d == Decode(s2)
             calls == <<Call("clk", "is_high", r.clk), Call("dt", "is_high", r.dt),
                        Call("idx", "is_high", r.idx)>>
         IN  IF r.idx = "Err"
             THEN [self |-> d.self, res |-> Err(InputPinError("idx")), io |-> calls]
             ELSE [self |-> [d.self EXCEPT !.pin_idx_state = (r.idx = "High")],
                   res |-> d.res, io |-> calls]

\* IndexedIncrementalEncoder::poll(), where the pins' is_high() return r.clk,
\* r.dt, r.idx. Without the async feature the pins are read in the order clk,
\* dt, idx and the first failed read returns its pin error at once; with the
\* async feature no pin is read. Yields the encoder afterwards, the value
\* returned and the pin calls made.
poll(self, r) ==
    IF feature_async
    THEN LET d == Decode(self) IN [self |-> d.self, res |-> d.res, io |-> <<>>]
    ELSE IF r.clk = "Err"
    THEN [self |-> self, res |-> Err(InputPinError("clk")),
          io |-> <<Call("clk", "is_high", r.clk)>>]
    ELSE LET s1 == [self EXCEPT !.pin_clk_state = (r.clk = "High")] IN
    IF r.dt = "Err"
    THEN [self |-> s1, res |-> Err(InputPinError("dt")),
          io |-> <<Call("clk", "is_high", r.clk), Call("dt", "is_high", r.dt)>>]
    ELSE LET s2 == [s1 EXCEPT !.pin_dt_state = (r.dt = "High")] IN
    IF r.idx = "Err"
    THEN [self |-> s2, res |-> Err(InputPinError("idx")),
          io |-> <<Call("clk", "is_high", r.clk), Call("dt", "is_high", r.dt),
                   Call("idx", "is_high", r.idx)>>]
    ELSE LET s3 == [s2 EXCEPT !.pin_idx_state = (r.idx = "High")]
             d == Decode(s3)
         IN  [self |-> d.self, res |-> d.res,
              io |-> <<Call("clk", "is_high", r.clk), Call("dt", "is_high", r.dt),
                       Call("idx", "is_high", r.idx)>>]

\* Every pin awaited for a falling edge, whatever its cached level.
WaitForFalling(state) == "wait_for_falling_edge"

\* The edge a pin is awaited for, from its cached level.
WaitFor(state) == IF state THEN "wait_for_falling_edge" ELSE "wait_for_rising_edge"

\* poll_async() whose Either3::Second arm flips the clock level.
poll_asyncSecondFlipsClk(self, first, w) ==
    LET waits == <<Call("clk", WaitFor(self.pin_clk_state),
                        IF first = "clk" THEN w ELSE "Pending"),
                   Call("dt", WaitFor(self.pin_dt_state),
                        IF first = "dt" THEN w ELSE "Pending"),
                   Call("idx", WaitFor(self.pin_idx_state),
                        IF first = "idx" THEN w ELSE "Pending")>>
        flippedSelf ==
            CASE first = "clk" -> [self EXCEPT !.pin_clk_state = ~self.pin_clk_state]
              [] first = "dt" -> [self EXCEPT !.pin_clk_state = ~self.pin_clk_state]
              [] first = "idx" -> [self EXCEPT !.pin_idx_state = ~self.pin_idx_state]
        p == poll(flippedSelf, [clk |-> "Err", dt |-> "Err", idx |-> "Err"])
    IN  [self |-> p.self, res |-> p.res, io |-> waits \o p.io]

\* poll_async() whose Either3::First arm flips the data level as well.
poll_asyncFirstFlipsBoth(self, first, w) ==
    LET waits == <<Call("clk", WaitFor(self.pin_clk_state),
                        IF first = "clk" THEN w ELSE "Pending"),
                   Call("dt", WaitFor(self.pin_dt_state),
                        IF first = "dt" THEN w ELSE "Pending"),
                   Call("idx", WaitFor(self.pin_idx_state),
                        IF first = "idx" THEN w ELSE "Pending")>>
        flippedSelf ==
            CASE first = "clk" -> [self EXCEPT !.pin_clk_state = ~self.pin_clk_state,
                                               !.pin_dt_state = ~self.pin_dt_state]
              [] first = "dt" -> [self EXCEPT !.pin_dt_state = ~self.pin_dt_state]
              [] first = "idx" -> [self EXCEPT !.pin_idx_state = ~self.pin_idx_state]
        p == poll(flippedSelf, [clk |-> "Err", dt |-> "Err", idx |-> "Err"])
    IN  [self |-> p.self, res |-> p.res, io |-> waits \o p.io]

\* IndexedIncrementalEncoder::poll_async(), where select3 resolves with the
\* wait of pin `first`, which returned `w` ("Ok" or "Err"). The value the wait
\* returned is discarded by the match arm, the cached level of that pin is
\* flipped and poll() runs.
poll_async(self, first, w) ==
    LET waits == <<Call("clk", WaitFor(self.pin_clk_state),
                        IF first = "clk" THEN w ELSE "Pending"),
                   Call("dt", WaitFor(self.pin_dt_state),
                        IF first = "dt" THEN w ELSE "Pending"),
                   Call("idx", WaitFor(self.pin_idx_state),
                        IF first = "idx" THEN w ELSE "Pending")>>
        flippedSelf ==
            CASE first = "clk" -> [self EXCEPT !.pin_clk_state = ~self.pin_clk_state]
              [] first = "dt" -> [self EXCEPT !.pin_dt_state = ~self.pin_dt_state]
              [] first = "idx" -> [self EXCEPT !.pin_idx_state = ~self.pin_idx_state]
        p == poll(flippedSelf, [clk |-> "Err", dt |-> "Err", idx |-> "Err"])
    IN  [self |-> p.self, res |-> p.res, io |-> waits \o p.io]

\* --------------------------------------------------- the environment
\* What is_high() of each pin returns: the pin's level, or an error for the
\* pins in `failing`.
Read(levels, failing) ==
    [clk |-> IF "clk" \in failing THEN "Err" ELSE IF levels["clk"] THEN "High" ELSE "Low",
     dt |-> IF "dt" \in failing THEN "Err" ELSE IF levels["dt"] THEN "High" ELSE "Low",
     idx |-> IF "idx" \in failing THEN "Err" ELSE IF levels["idx"] THEN "High" ELSE "Low"]

\* The cached level of a pin.
Cached(self, pin) ==
    CASE pin = "clk" -> self.pin_clk_state
      [] pin = "dt" -> self.pin_dt_state
      [] pin = "idx" -> self.pin_idx_state

\* The record of the last call.
Ret(op, arg, res) == [op |-> op, arg |-> arg, res |-> res]
NoArg == "-"

\* --------------------------------------------------- one encoder, any environment
vars == <<coreVars, taskVars, pairVars>>

\* The example task is not running.
TaskIdle ==
    /\ CW = 0
    /\ CCW = 0
    /\ clk_states = <<>>
    /\ dat_states = <<>>
    /\ expected_pulse_count = 0
    /\ task_pc = "idle"
    /\ reported = [fwd |-> 0, bwd |-> 0, none |-> 0, err |-> 0]
    /\ owner = [p \in Pins |-> "encoder"]

\* There are no further encoders.
PairIdle ==
    /\ encoder_rev = new([clk |-> "High", dt |-> "High", idx |-> "High"])
    /\ encoder_mir = new([clk |-> "High", dt |-> "High", idx |-> "High"])
    /\ ret_rev = Ret("new", NoArg, Unit)
    /\ ret_mir = Ret("new", NoArg, Unit)
    /\ valid_so_far = TRUE

Init ==
    /\ feature_async \in BOOLEAN
    /\ Steps \in StepModes
    /\ Mode \in Modes
    /\ T_MAX = MaxT
    /\ pins \in [Pins -> BOOLEAN]
    /\ \E failing \in SUBSET Pins :
          /\ encoder = new(Read(pins, failing))
          /\ io = <<Call("clk", "is_high", Read(pins, failing).clk),
                    Call("dt", "is_high", Read(pins, failing).dt),
                    Call("idx", "is_high", Read(pins, failing).idx)>>
    /\ ret = Ret("new", NoArg, Unit)
    /\ position_before = 0
    /\ TaskIdle
    /\ PairIdle

\* A pin changes its level (the sensor moves, or the line glitches).
PinChange ==
    \E p \in Pins :
        /\ pins' = [pins EXCEPT ![p] = ~pins[p]]
        /\ UNCHANGED <<taskVars, pairVars, feature_async, Steps, Mode, T_MAX, encoder, ret, io,
                       position_before>>

\* poll() is called; without the async feature the reads of the pins in
\* `failing` return an error.
Poll ==
    \E failing \in (IF feature_async THEN {{}} ELSE SUBSET Pins) :
        LET p == poll(encoder, Read(pins, failing))
        IN  /\ encoder' = p.self
            /\ ret' = Ret("poll", NoArg, p.res)
            /\ io' = p.io
            /\ position_before' = position(encoder)
            /\ UNCHANGED <<taskVars, pairVars, feature_async, Steps, Mode, T_MAX, pins>>

\* poll_async() is called and the wait of pin `first` resolves first. A wait
\* that returns Ok after the awaited edge (`edge`) leaves the pin at the
\* level opposite to the cached one; a wait that returns an error, or that
\* fires without its edge, leaves the pin as it is.
PollAsync ==
    /\ feature_async
    /\ \E first \in Pins, w \in {"Ok", "Err"} :
      \E edge \in (IF w = "Ok" THEN BOOLEAN ELSE {FALSE}) :
        LET p == poll_async(encoder, first, w)
        IN  /\ encoder' = p.self
            /\ ret' = Ret("poll_async", NoArg, p.res)
            /\ io' = p.io
            /\ position_before' = position(encoder)
            /\ pins' = IF w = "Ok" /\ edge
                       THEN [pins EXCEPT ![first] = ~Cached(encoder, first)]
                       ELSE pins
            /\ UNCHANGED <<taskVars, pairVars, feature_async, Steps, Mode, T_MAX>>

Reversed ==
    /\ encoder' = reversed(encoder)
    /\ ret' = Ret("reversed", NoArg, Unit)
    /\ io' = <<>>
    /\ position_before' = position(encoder)
    /\ UNCHANGED <<taskVars, pairVars, feature_async, Steps, Mode, T_MAX, pins>>

IsReversed ==
    /\ ret' = Ret("is_reversed", NoArg, [tag |-> "Value", val |-> is_reversed(encoder)])
    /\ io' = <<>>
    /\ position_before' = position(encoder)
    /\ UNCHANGED <<taskVars, pairVars, feature_async, Steps, Mode, T_MAX, pins, encoder>>

PinsMut ==
    /\ ret' = Ret("pins_mut", NoArg, [tag |-> "Pins", val |-> pins_mut(encoder)])
    /\ io' = <<>>
    /\ position_before' = position(encoder)
    /\ UNCHANGED <<taskVars, pairVars, feature_async, Steps, Mode, T_MAX, pins, encoder>>

Position ==
    /\ ret' = Ret("position", NoArg, [tag |-> "Value", val |-> position(encoder)])
    /\ io' = <<>>
    /\ position_before' = position(encoder)
    /\ UNCHANGED <<taskVars, pairVars, feature_async, Steps, Mode, T_MAX, pins, encoder>>

SetPosition ==
    \E v \in T :
        /\ encoder' = set_position(encoder, v)
        /\ ret' = Ret("set_position", v, Unit)
        /\ io' = <<>>
        /\ position_before' = position(encoder)
        /\ UNCHANGED <<taskVars, pairVars, feature_async, Steps, Mode, T_MAX, pins>>

Reset ==
    /\ encoder' = reset(encoder)
    /\ ret' = Ret("reset", NoArg, Unit)
    /\ io' = <<>>
    /\ position_before' = position(encoder)
    /\ UNCHANGED <<taskVars, pairVars, feature_async, Steps, Mode, T_MAX, pins>>

Next ==
    \/ PinChange
    \/ Poll
    \/ PollAsync
    \/ Reversed
    \/ IsReversed
    \/ PinsMut
    \/ Position
    \/ SetPosition
    \/ Reset

Spec == Init /\ [][Next]_vars

\* --------------------------------------------------- the example task
\* PinTransaction::wait_for_edge(edge) and ::wait_for_edge_forever(edge).
wait_for_edge(edge) == [edge |-> edge, forever |-> FALSE]
wait_for_edge_forever(edge) == [edge |-> edge, forever |-> TRUE]

\* The cw! macro: what it pushes on the clock and on the data transactions.
cw ==
    [clk |-> <<wait_for_edge("Falling"), wait_for_edge_forever("Rising"),
               wait_for_edge("Rising"), wait_for_edge_forever("Falling")>>,
     dat |-> <<wait_for_edge("Falling"), wait_for_edge("Rising")>>]

\* The ccw! macro.
ccw ==
    [clk |-> <<wait_for_edge_forever("Falling"), wait_for_edge("Falling"),
               wait_for_edge_forever("Rising"), wait_for_edge("Rising")>>,
     dat |-> <<wait_for_edge("Falling"), wait_for_edge("Rising")>>]

\* `n` times the transactions of macro `m` for channel `ch`.
RECURSIVE Repeat(_, _, _)
Repeat(m, ch, n) == IF n = 0 THEN <<>> ELSE m[ch] \o Repeat(m, ch, n - 1)

\* The mock pin's wait_for_rising_edge / wait_for_falling_edge: it takes the
\* next transaction, which has to be a wait for that edge, and resolves
\* unless the transaction is a wait_for_edge_forever.
MockWait(queue, method) ==
    IF queue = <<>>
       \/ Head(queue).edge # (IF method = "wait_for_falling_edge" THEN "Falling" ELSE "Rising")
    THEN "Panic"
    ELSE IF Head(queue).forever THEN "Pending" ELSE "Ok"

\* select3 over the waits of the clock and data mocks (the example has no
\* index pin: its level stays high and its wait never resolves): the pin
\* whose wait resolves first, or "blocked" when none does, or "panicked".
Select ==
    LET c == MockWait(clk_states, WaitFor(encoder.pin_clk_state))
        d == MockWait(dat_states, WaitFor(encoder.pin_dt_state))
    IN  CASE c = "Ok" -> "clk"
          [] c = "Panic" -> "panicked"
          [] d = "Ok" -> "dt"
          [] d = "Panic" -> "panicked"
          [] OTHER -> "blocked"

\* What a poll result adds to the counts of the task's polls.
Count(res) ==
    CASE res.tag = "Err" -> [reported EXCEPT !.err = @ + 1]
      [] res.val = None -> [reported EXCEPT !.none = @ + 1]
      [] res.val \in {"Clockwise", "Forward"} -> [reported EXCEPT !.fwd = @ + 1]
      [] OTHER -> [reported EXCEPT !.bwd = @ + 1]

\* let expected_position = (CW - CCW) * steps
expected_position == (CW - CCW) * PULSES_PER_CYCLE(Steps)

InitTask ==
    /\ feature_async \in BOOLEAN
    /\ Steps \in StepModes
    /\ Mode \in Modes
    /\ T_MAX \in {MaxT, WideT}
    /\ pins = [p \in Pins |-> TRUE]
    /\ encoder = new(Read(pins, {}))
    /\ io = <<Call("clk", "is_high", "High"), Call("dt", "is_high", "High"),
              Call("idx", "is_high", "High")>>
    /\ ret = Ret("new", NoArg, Unit)
    /\ position_before = 0
    /\ CW \in 0..MaxCW
    /\ CCW \in 0..MaxCCW
    /\ clk_states = Repeat(cw, "clk", CW) \o Repeat(ccw, "clk", CCW)
    /\ dat_states = Repeat(cw, "dat", CW) \o Repeat(ccw, "dat", CCW)
    /\ expected_pulse_count = PULSES_PER_CYCLE(Steps) * (CW + CCW)
    /\ task_pc = "loop"
    /\ reported = [fwd |-> 0, bwd |-> 0, none |-> 0, err |-> 0]
    /\ owner = [p \in Pins |-> "encoder"]
    /\ PairIdle

\* The loop counting every poll that returns Ok, a movement or none.
TaskTurnCountsEveryOk(first, p) ==
    LET left == IF p.res.tag = "Ok"
                THEN expected_pulse_count - 1
                ELSE expected_pulse_count
    IN  /\ encoder' = p.self
        /\ io' = p.io
        /\ position_before' = position(encoder)
        /\ clk_states' = Tail(clk_states)
        /\ dat_states' = IF first = "dt" THEN Tail(dat_states) ELSE dat_states
        /\ reported' = Count(p.res)
        /\ expected_pulse_count' = left
        /\ task_pc' = CASE left < 0 -> "panicked"
                        [] left > 0 -> "loop"
                        [] position(p.self) = expected_position -> "done"
                        [] OTHER -> "assert_failed"
        /\ UNCHANGED <<pairVars, feature_async, Steps, Mode, T_MAX, CW, CCW, owner>>

\* One turn of the task's loop: the poll, the match on its result and the
\* test that leaves the loop; on leaving, the assertion on the position.
\* `first` is the pin whose scripted edge comes next and `p` the poll made.
TaskTurn(first, p) ==
    LET left == IF p.res.tag = "Ok" /\ p.res.val # None
                THEN expected_pulse_count - 1
                ELSE expected_pulse_count
    IN  /\ encoder' = p.self
        /\ io' = p.io
        /\ position_before' = position(encoder)
        /\ clk_states' = Tail(clk_states)
        /\ dat_states' = IF first = "dt" THEN Tail(dat_states) ELSE dat_states
        /\ reported' = Count(p.res)
        /\ expected_pulse_count' = left
        /\ task_pc' = CASE left < 0 -> "panicked"
                        [] left > 0 -> "loop"
                        [] position(p.self) = expected_position -> "done"
                        [] OTHER -> "assert_failed"
        /\ UNCHANGED <<pairVars, feature_async, Steps, Mode, T_MAX, CW, CCW, owner>>

\* The task polls the event-driven encoder on the mock pins.
TaskPollAsync ==
    /\ task_pc = "loop"
    /\ feature_async
    /\ Select \in {"clk", "dt"}
    /\ LET p == poll_async(encoder, Select, "Ok")
       IN  /\ TaskTurn(Select, p)
           /\ ret' = Ret("poll_async", NoArg, p.res)
           /\ pins' = [pins EXCEPT ![Select] = ~Cached(encoder, Select)]

\* The same edges with a blocking encoder: the sensor makes the next
\* scripted edge and the task polls once.
TaskPollBlocking ==
    /\ task_pc = "loop"
    /\ ~feature_async
    /\ Select \in {"clk", "dt"}
    /\ LET moved == [pins EXCEPT ![Select] = ~pins[Select]]
           p == poll(encoder, Read(moved, {}))
       IN  /\ TaskTurn(Select, p)
           /\ ret' = Ret("poll", NoArg, p.res)
           /\ pins' = moved

\* A wait of a mock pin finds no transaction, or one for the other edge, and
\* the mock panics; or no wait resolves and the task stays blocked.
TaskStops ==
    /\ task_pc = "loop"
    /\ Select \in {"panicked", "blocked"}
    /\ task_pc' = Select
    /\ UNCHANGED <<coreVars, pairVars, CW, CCW, clk_states, dat_states,
                   expected_pulse_count, reported, owner>>

\* After the loop and its assertion the task releases the encoder and calls
\* done() on the two mock pins it got back, which panics when a mock still
\* expects a transaction; then it exits.
TaskRelease ==
    /\ task_pc = "done"
    /\ owner = [p \in Pins |-> "encoder"]
    /\ owner' = [p \in Pins |-> IF \E i \in DOMAIN release(encoder) : release(encoder)[i] = p
                                 THEN "caller" ELSE "dropped"]
    /\ ret' = Ret("release", NoArg, [tag |-> "Pins", val |-> release(encoder)])
    /\ io' = <<>>
    /\ position_before' = position(encoder)
    /\ task_pc' = IF clk_states = <<>> /\ dat_states = <<>> THEN "exited" ELSE "panicked"
    /\ UNCHANGED <<pairVars, feature_async, Steps, Mode, T_MAX, encoder, pins, CW, CCW,
                   clk_states, dat_states, expected_pulse_count, reported>>

NextTask ==
    \/ TaskPollAsync
    \/ TaskPollBlocking
    \/ TaskStops
    \/ TaskRelease

SpecTask == InitTask /\ [][NextTask]_vars

\* --------------------------------------------------- three encoders
\* The mirrored reads: clock and data exchanged, which turns every cycle into
\* one of the other direction.
Mirror(r) == [clk |-> r.dt, dt |-> r.clk, idx |-> r.idx]
MirrorPin(p) == CASE p = "clk" -> "dt" [] p = "dt" -> "clk" [] OTHER -> p

InitPair ==
    /\ feature_async \in BOOLEAN
    /\ Steps \in StepModes
    /\ Mode \in Modes
    /\ T_MAX = MaxT
    /\ pins \in [Pins -> BOOLEAN]
    /\ encoder = new(Read(pins, {}))
    /\ encoder_rev = reversed(new(Read(pins, {})))
    /\ encoder_mir = new(Mirror(Read(pins, {})))
    /\ io = <<Call("clk", "is_high", Read(pins, {}).clk),
              Call("dt", "is_high", Read(pins, {}).dt),
              Call("idx", "is_high", Read(pins, {}).idx)>>
    /\ ret = Ret("new", NoArg, Unit)
    /\ position_before = 0
    /\ ret_rev = Ret("reversed", NoArg, Unit)
    /\ ret_mir = Ret("new", NoArg, Unit)
    /\ valid_so_far = TRUE
    /\ TaskIdle

PairPinChange ==
    \E p \in Pins :
        /\ pins' = [pins EXCEPT ![p] = ~pins[p]]
        /\ UNCHANGED <<taskVars, pairVars, feature_async, Steps, Mode, T_MAX,
                       encoder, ret, io, position_before>>

\* The three results of one round of polls.
PairResults(op, p, r, m) ==
    /\ encoder' = p.self
    /\ encoder_rev' = r.self
    /\ encoder_mir' = m.self
    /\ ret' = Ret(op, NoArg, p.res)
    /\ ret_rev' = Ret(op, NoArg, r.res)
    /\ ret_mir' = Ret(op, NoArg, m.res)
    /\ io' = p.io
    /\ position_before' = position(encoder)
    /\ valid_so_far' = (/\ valid_so_far
                        /\ p.res.tag = "Ok"
                        /\ r.res.tag = "Ok"
                        /\ m.res.tag = "Ok")
    /\ UNCHANGED <<taskVars, feature_async, Steps, Mode, T_MAX>>

\* poll() is called on the three encoders.
PairPoll ==
    \E failing \in (IF feature_async THEN {{}} ELSE SUBSET Pins) :
        /\ PairResults("poll",
                       poll(encoder, Read(pins, failing)),
                       poll(encoder_rev, Read(pins, failing)),
                       poll(encoder_mir, Mirror(Read(pins, failing))))
        /\ UNCHANGED pins

\* poll_async() is called on the three encoders and the wait of pin `first`
\* (of the mirrored pin, for the mirrored encoder) resolves first.
PairPollAsync ==
    /\ feature_async
    /\ \E first \in Pins, w \in {"Ok", "Err"} :
        /\ PairResults("poll_async",
                       poll_async(encoder, first, w),
                       poll_async(encoder_rev, first, w),
                       poll_async(encoder_mir, MirrorPin(first), w))
        /\ pins' = IF w = "Ok"
                   THEN [pins EXCEPT ![first] = ~Cached(encoder, first)]
                   ELSE pins

NextPair ==
    \/ PairPinChange
    \/ PairPoll
    \/ PairPollAsync

SpecPair == InitPair /\ [][NextPair]_vars

\* --------------------------------------------------- properties
PinErrors == {InputPinError(p) : p \in Pins}
PollOps == {"poll", "poll_async"}

\* The call recorded in ret read or awaited no pin with an error.
NoPinCallFailed == \A i \in 1..Len(io) : io[i].result # "Err"

\* C3: when a poll() that read all its pins is followed by a poll() that reads
\* all its pins and finds both the clock and the data level changed, the
\* second poll returns the decode error Error::Quadrature, which is none of
\* the pin errors and is no Ok(Some(movement)).
C3_BothFlippedIsDecodeError ==
    [][(/\ ret.op = "poll" /\ ret.res.val \notin PinErrors
        /\ ret'.op = "poll" /\ ret'.res.val \notin PinErrors
        /\ encoder'.pin_clk_state # encoder.pin_clk_state
        /\ encoder'.pin_dt_state # encoder.pin_dt_state)
       => (/\ ret'.res = Err(Quadrature)
           /\ Quadrature \notin PinErrors
           /\ ret'.res.tag # "Ok")]_vars

\* C3 witness: a poll that has returned the decode error after reading all
\* three pins.
C3_Witness ==
    /\ ~feature_async
    /\ ret.op = "poll"
    /\ ret.res = Err(Quadrature)
    /\ Len(io) = 3
    /\ NoPinCallFailed

\* The value x clamped to the range of the counter type.
Clamp(x) == IF x > T_MAX THEN T_MAX ELSE IF x < T_MIN THEN T_MIN ELSE x

\* Polls the task has made, each for one scripted edge.
Polled == reported.fwd + reported.bwd + reported.none + reported.err

\* The task has polled only edges of clockwise (counter-clockwise) cycles.
OnlyCW == Polled <= 4 * CW
OnlyCCW == CW = 0

\* The polls made so far make up whole cycles in one direction, of which
\* `moves` movements in the right direction were to be reported.
WholeCycles(moves) ==
    /\ (OnlyCW \/ OnlyCCW) => reported.err = 0
    /\ (OnlyCW /\ Polled % 4 = 0)
         => (/\ reported.fwd = moves
             /\ reported.bwd = 0
             /\ position(encoder) = Clamp((Polled \div 4) * PULSES_PER_CYCLE(Steps)))
    /\ (OnlyCCW /\ Polled % 4 = 0)
         => (/\ reported.bwd = moves
             /\ reported.fwd = 0
             /\ position(encoder) = Clamp(-(Polled \div 4) * PULSES_PER_CYCLE(Steps)))

\* C1 as stated: after N whole cycles in one direction from a fresh encoder
\* with clock and data high, no poll has returned an error, exactly N
\* movements of that direction have been reported and position() is N times
\* the movements per cycle of the step mode.
C1_OneMovementPerCycle == WholeCycles(Polled \div 4)

\* C1 as amended: after N whole cycles in one direction from a fresh encoder
\* with clock and data high, no poll has returned an error, exactly
\* N * pulses_per_cycle() movements of that direction have been reported and
\* position() is N * pulses_per_cycle() in that direction.
C1_MovementsPerCycle == WholeCycles((Polled \div 4) * PULSES_PER_CYCLE(Steps))

\* C1 witness: two whole clockwise cycles polled in quarter steps, before any
\* counter-clockwise edge.
C1_Witness ==
    /\ task_pc = "loop"
    /\ Steps = "QuadStep"
    /\ Polled = 8
    /\ CW >= 2
    /\ reported.fwd = 8
    /\ position(encoder) = 8

\* C2: after a clockwise cycles followed by b counter-clockwise cycles on an
\* encoder built with clock and data high, position() is
\* (a - b) * pulses_per_cycle(), the counter type holding a * P and (a - b) * P;
\* and the polls get there: no mock pin panics and the task does not block,
\* unless no cycle is mocked at all.
C2_PositionAfterCycles ==
    /\ (/\ Polled = 4 * (CW + CCW)
        /\ CW * PULSES_PER_CYCLE(Steps) <= T_MAX
        /\ (CW - CCW) * PULSES_PER_CYCLE(Steps) >= T_MIN)
       => (/\ position(encoder) = (CW - CCW) * PULSES_PER_CYCLE(Steps)
           /\ task_pc # "assert_failed")
    /\ (task_pc \in {"panicked", "blocked"}) => (CW + CCW = 0)

\* C2 witness: the example's 6 clockwise and 9 counter-clockwise cycles in
\* quarter steps, the task past its assertion.
C2_Witness ==
    /\ CW = 6
    /\ CCW = 9
    /\ Steps = "QuadStep"
    /\ feature_async
    /\ task_pc = "done"
    /\ position(encoder) = -12

\* The pins read by the blocking poll(), in the order it reads them.
ReadOrder == <<"clk", "dt", "idx">>

\* C4: the blocking poll() reads the pins in the order clock, data, index and
\* stops at the first read that fails; it then returns the pin error of
\* exactly that pin, and the decode engine and position() are as before the
\* call.
C4_PinErrorStopsPoll ==
    [][(~feature_async /\ ret'.op = "poll")
       => (/\ Len(io') \in 1..3
           /\ \A i \in 1..Len(io') :
                 /\ io'[i].pin = ReadOrder[i]
                 /\ io'[i].call = "is_high"
                 /\ (io'[i].result = "Err") => (i = Len(io'))
           /\ (io'[Len(io')].result # "Err") => (Len(io') = 3 /\ ret'.res.val \notin PinErrors)
           /\ (io'[Len(io')].result = "Err")
                 => (/\ ret'.res = Err(InputPinError(io'[Len(io')].pin))
                     /\ encoder'.decoder = encoder.decoder
                     /\ position(encoder') = position(encoder)))]_vars

\* C4 witness: a blocking poll whose data read failed after the clock read,
\* with a decode engine that has counted.
C4_Witness ==
    /\ ~feature_async
    /\ ret.op = "poll"
    /\ Len(io) = 2
    /\ io[2].result = "Err"
    /\ ret.res = Err("PinDt")
    /\ position(encoder) # 0

\* C5: when the wait that resolves first in poll_async() returns an error,
\* poll_async() returns the pin error of the pin whose wait failed.
C5_WaitErrorReturned ==
    (ret.op = "poll_async")
       => \A i \in 1..Len(io) :
             (io[i].result = "Err") => (ret.res = Err(InputPinError(io[i].pin)))

\* C6: set_position(v) makes position() return v, returns no Movement, and
\* leaves the cached pin levels and the reversal flag as they were; a
\* position() call that follows returns v.
C6_SetPosition ==
    [][/\ (ret'.op = "set_position")
            => (/\ position(encoder') = ret'.arg
                /\ ret'.res = Unit
                /\ encoder'.pin_clk_state = encoder.pin_clk_state
                /\ encoder'.pin_dt_state = encoder.pin_dt_state
                /\ encoder'.pin_idx_state = encoder.pin_idx_state
                /\ encoder'.is_reversed = encoder.is_reversed)
       /\ (ret.op = "set_position" /\ ret'.op = "position")
            => (ret'.res.val = ret.arg)]_vars

\* C6 witness: set_position(v) with v other than zero on a reversed encoder
\* that has polled a movement before.
C6_Witness ==
    /\ ret.op = "set_position"
    /\ ret.arg # 0
    /\ position(encoder) = ret.arg
    /\ position_before # ret.arg
    /\ encoder.is_reversed
    /\ encoder.decoder # [DecoderDefault EXCEPT !.counter = ret.arg]

\* The raw step from the decode engine's state `dec` to the levels clk and dt
\* is valid, goes in direction d (1 or -1) and completes a movement.
CompletesStep(dec, clk, dt, d) ==
    /\ (GrayIndex(clk, dt) - GrayIndex(dec.clk, dec.dt)) % 4 = d % 4
    /\ dec.acc + d = d * TransitionsPerPulse(Steps)

\* C7: with position() at the largest (smallest) value of the counter type, a
\* poll that processes a valid step upwards (downwards) returns a movement,
\* not an error, and leaves position() at that bound.
C7_Saturates ==
    [][\A d \in {1, -1} :
          (/\ position(encoder) = (IF d = 1 THEN T_MAX ELSE T_MIN)
           /\ ret'.op \in PollOps
           /\ encoder'.decoder # encoder.decoder
           /\ CompletesStep(encoder.decoder, encoder'.pin_clk_state,
                            encoder'.pin_dt_state, d))
          => (/\ ret'.res.tag = "Ok"
              /\ ret'.res.val \in Movements
              /\ position(encoder') = position(encoder))]_vars

\* C7 witness: a poll that began with the counter at its largest value has
\* reported a movement and the counter is still at that value.
C7_Witness ==
    /\ ret.op \in PollOps
    /\ ret.res.tag = "Ok"
    /\ ret.res.val \in Movements
    /\ position_before = T_MAX
    /\ position(encoder) = T_MAX

\* C8: an encoder with reversal on that polls a valid sequence and an encoder
\* with reversal off that polls the mirrored sequence report the same
\* movements and have the same position().
C8_ReversedEqualsMirrored ==
    valid_so_far
       => (/\ ret_rev.res = ret_mir.res
           /\ position(encoder_rev) = position(encoder_mir))

\* C9: on the same pin levels a reversed and an unreversed encoder return
\* results of the same shape from every poll: the same error, or both
\* Ok(None), or movements that are each other's flipped().
C9_ReversalFlipsMovementOnly ==
    (ret.op \in PollOps)
       => (/\ ret_rev.op = ret.op
           /\ ret_rev.res.tag = ret.res.tag
           /\ (ret.res.tag = "Err") => (ret_rev.res = ret.res)
           /\ (ret.res = Ok(None)) => (ret_rev.res = Ok(None))
           /\ (ret.res.tag = "Ok" /\ ret.res.val # None)
                 => (/\ ret_rev.res = Ok(flipped(ret.res.val))
                     /\ ret_rev.res # ret.res))

\* C9 witness: the unreversed encoder has reported a movement and the
\* reversed one the flipped movement.
C9_Witness ==
    /\ ret.op \in PollOps
    /\ ret.res.tag = "Ok"
    /\ ret.res.val \in Movements
    /\ ret_rev.res = Ok(flipped(ret.res.val))
    /\ encoder_rev.is_reversed
    /\ ~encoder.is_reversed

\* C10: on the same pin levels position() of the reversed encoder is the
\* negation of position() of the unreversed one.
C10_ReversedPositionNegated ==
    position(encoder_rev) = -position(encoder)

\* --------------------------------------------------------------- C11
\* C11: release() hands the caller every pin handle the encoder owned, the
\* clock, the data and the index pin: once the encoder is released no pin
\* handle is still owned by the encoder and none is lost.
C11_ReleaseReturnsEveryPin ==
    (ret.op = "release") => (\A p \in Pins : owner[p] = "caller")

\* --------------------------------------------------------------- C12
\* The step is a call of poll(), which leaves the pins alone, or a call of
\* poll_async(), which flips a cached level.
PollCompletes == ret'.op = "poll" /\ pins' = pins
PollAsyncCompletes == ret'.op = "poll_async" /\ encoder' # encoder

\* The calls of the last operation on pin `p` that observed its level: a
\* successful is_high(), or an edge wait that resolved with Ok.
Observations(calls, p) ==
    {i \in DOMAIN calls : calls[i].pin = p /\ calls[i].result \in {"High", "Low", "Ok"}}

\* C12: after construction and after every completed poll() or poll_async()
\* each cached level is the actual level of its pin as of the last sample or
\* the last awaited edge of that pin: new() caches the level of each pin it
\* could read, and a poll()/poll_async() caches the pin's level for each pin
\* it sampled or whose awaited edge it saw, and leaves the cached level of
\* every other pin as it was. (A wait that resolved with Ok although the
\* pin made no edge is left to the environment: it is not counted against
\* the encoder here.)
C12_CachedLevelIsLastObserved ==
    /\ \A p \in Pins : Observations(io, p) # {} => Cached(encoder, p) = pins[p]
    /\ [][(PollCompletes \/ PollAsyncCompletes) =>
            \A p \in Pins :
               IF Observations(io', p) = {}
               THEN Cached(encoder', p) = Cached(encoder, p)
               ELSE \/ Cached(encoder', p) = pins'[p]
                    \/ feature_async /\ pins'[p] = Cached(encoder, p)]_vars

\* --------------------------------------------------------------- C13
\* C13: new() never fails. It samples each of the pins it owns exactly once,
\* caches the level it read, caches low for a pin whose read returned an
\* error, and yields an encoder whose position() is 0 and whose
\* is_reversed() is false.
C13_NewNeverFails ==
    (ret.op = "new") =>
        /\ ret.res = Unit
        /\ Len(io) = 3
        /\ \A p \in Pins : \E i \in DOMAIN io :
              /\ io[i].pin = p
              /\ io[i].call = "is_high"
              /\ \A j \in DOMAIN io : io[j].pin = p => j = i
              /\ Cached(encoder, p) = (io[i].result = "High")
        /\ position(encoder) = 0
        /\ is_reversed(encoder) = FALSE

\* new() read a high and a low pin and failed to read a pin whose level is
\* high, which it caches as low.
C13_Witness ==
    /\ ret.op = "new"
    /\ \E i, j, k \in DOMAIN io :
          /\ io[i].result = "High" /\ Cached(encoder, io[i].pin)
          /\ io[j].result = "Low" /\ ~Cached(encoder, io[j].pin)
          /\ io[k].result = "Err" /\ pins[io[k].pin] /\ ~Cached(encoder, io[k].pin)

\* --------------------------------------------------------------- C14
\* C14: each poll_async() waits, on every pin, for a falling edge when that
\* pin's cached level is high and for a rising edge when it is low; when the
\* race resolves, exactly one cached level is flipped, that of the pin whose
\* wait resolved first, and the other two are left as they were.
C14_WaitsByCachedLevelFlipsWinner ==
    [][PollAsyncCompletes =>
        /\ \A p \in Pins : \E i \in 1..3 :
              /\ io'[i].pin = p
              /\ io'[i].call = (IF Cached(encoder, p) THEN "wait_for_falling_edge"
                                                      ELSE "wait_for_rising_edge")
        /\ \E first \in Pins :
              /\ \A i \in 1..3 : (io'[i].result # "Pending") <=> (io'[i].pin = first)
              /\ Cached(encoder', first) = ~Cached(encoder, first)
              /\ \A q \in Pins \ {first} : Cached(encoder', q) = Cached(encoder, q)]_vars

\* A poll_async() waited for a falling edge of one pin and a rising edge of
\* another, the data pin's rising edge came first and its cached level is
\* high now.
C14_Witness ==
    /\ ret.op = "poll_async"
    /\ \E i \in DOMAIN io : io[i].call = "wait_for_falling_edge"
    /\ io[2] = Call("dt", "wait_for_rising_edge", "Ok")
    /\ encoder.pin_dt_state

\* --------------------------------------------------------------- C15
\* What one update of the decode engine with the levels `self` caches makes
\* poll() return, when the engine was in state `dec` and the encoder's
\* reversal flag is `rev`.
OneDecode(dec, self, rev) ==
    LET u == DecoderUpdate(dec, Steps, self.pin_clk_state, self.pin_dt_state,
                           self.pin_idx_state)
    IN  [decoder |-> u.decoder,
         res |-> IF u.result.tag = "Err" THEN Err(Quadrature)
                 ELSE IF u.result.val = None THEN Ok(None)
                 ELSE Ok(IF rev THEN flipped(MovementFrom(Mode, u.result.val))
                                ELSE MovementFrom(Mode, u.result.val))]

\* C15: in the event-driven build a poll_async() suspends only on the race of
\* the three edge waits; after it there is no pin read and no second wait,
\* the decode engine is invoked exactly once, on the three cached levels as
\* the flip left them, and its result, mapped to a Movement, is returned.
C15_OneRaceThenOneDecode ==
    [][PollAsyncCompletes =>
        /\ Len(io') = 3
        /\ \A i \in DOMAIN io' :
              io'[i].call \in {"wait_for_falling_edge", "wait_for_rising_edge"}
        /\ encoder'.decoder = OneDecode(encoder.decoder, encoder', encoder.is_reversed).decoder
        /\ ret'.res = OneDecode(encoder.decoder, encoder', encoder.is_reversed).res
        /\ encoder'.is_reversed = encoder.is_reversed]_vars

\* A poll_async() of three waits and no read returned a movement and moved
\* the position.
C15_Witness ==
    /\ ret.op = "poll_async"
    /\ Len(io) = 3
    /\ ret.res.tag = "Ok"
    /\ ret.res.val \in Movements
    /\ position(encoder) # position_before

\* --------------------------------------------------------------- C16
\* The loop of the task reports one movement per pulse of the mocked cycles
\* and no error, and it is over exactly when both mocks have no transaction
\* left (after its first poll, the loop goes on only while the clock mock
\* has a transaction left); no wait panics or blocks, and neither does
\* done() after release().
LoopEndsWithScript ==
    /\ task_pc \notin {"panicked", "blocked"}
    /\ reported.err = 0
    /\ (task_pc # "loop") => (clk_states = <<>> /\ dat_states = <<>>)
    /\ (task_pc = "loop" /\ ret.op # "new") => clk_states # <<>>
    /\ (task_pc # "loop") =>
          reported.fwd + reported.bwd = PULSES_PER_CYCLE(Steps) * (CW + CCW)

\* C16: polling a mocked sequence of a clockwise cycles followed by b
\* counter-clockwise cycles (a + b >= 1, the example has a = 6 and b = 9)
\* reports exactly pulses_per_cycle() * (a + b) movements and no error, so
\* that the task's loop, which counts down from that number and leaves at
\* zero, terminates exactly when every scripted edge has been consumed.
C16_LoopTerminatesWhenScriptConsumed == (CW + CCW >= 1) => LoopEndsWithScript

\* The event-driven full-step task has gone through clockwise and
\* counter-clockwise cycles, polls without movement among them, and left.
C16_Witness ==
    /\ task_pc = "exited"
    /\ feature_async
    /\ Steps = "FullStep"
    /\ CW >= 1
    /\ CCW >= 1
    /\ reported.none > 0
    /\ reported.fwd + reported.bwd = CW + CCW

\* --------------------------------------------------------------- C17
\* C17: reset() puts the encoder back to its initial state: afterwards
\* position() is zero and the state of the decode engine is that of a newly
\* constructed encoder, while the cached pin levels and the reversal flag
\* keep the values they had.
C17_ResetKeepsLevelsAndFlag ==
    [][(ret'.op = "reset") =>
        /\ position(encoder') = 0
        /\ encoder'.decoder = new(Read(pins, {})).decoder
        /\ \A p \in Pins : Cached(encoder', p) = Cached(encoder, p)
        /\ is_reversed(encoder') = is_reversed(encoder)]_vars

\* A reversed encoder away from position zero, with a low cached clock
\* level, has been reset.
C17_Witness ==
    /\ ret.op = "reset"
    /\ position_before # 0
    /\ position(encoder) = 0
    /\ is_reversed(encoder)
    /\ ~encoder.pin_clk_state
    /\ encoder.decoder = DecoderDefault

\* --------------------------------------------------------------- C18
\* The decode engine was last updated with the clock and data levels the
\* encoder caches, as it is after every poll.
EngineHasCachedLevels(self) ==
    /\ self.decoder.clk = self.pin_clk_state
    /\ self.decoder.dt = self.pin_dt_state

StepOf(movement, rev) ==
    LET unflipped == IF rev THEN flipped(movement) ELSE movement
    IN  IF unflipped \in {"Clockwise", "Forward"} THEN 1 ELSE -1

C20_ReversalFlagOnlySetByReversed ==
    /\ is_reversed(encoder) = FALSE
    /\ [][/\ (is_reversed(encoder') # is_reversed(encoder)) => (ret'.op = "reversed")
          /\ (ret'.op = "reversed") => is_reversed(encoder')
          /\ is_reversed(encoder) => is_reversed(encoder')]_vars

\* A reversed encoder had its position set and is reversed still.
C20_Witness ==
    /\ is_reversed(encoder)
    /\ ret.op = "set_position"
    /\ ret.arg = T_MIN
    /\ position(encoder) = T_MIN

====
